---- MODULE Spec2Model ----
(***************************************************************************)
(* Client-side session / home coordination of the smart-home dashboard:    *)
(*   - HomeProvider  (context/HomeContext.tsx, src/unnamed/part_004)       *)
(*   - home-scoped fetch hooks (hooks/useHomeData.ts)                      *)
(*   - AuthProvider  (context/AuthContext.tsx, src/unnamed/part_003)       *)
(*   - the two together as App.tsx nests them (SpecApp)                    *)
(*                                                                         *)
(* React is modelled at the granularity of its event loop: one action is   *)
(* one task (an event handler, a mount, the continuation of an await)      *)
(* together with the render it schedules and the effects of that render.   *)
(* What a handler closes over (homes, currentHomeId) is the value of the   *)
(* last render, i.e. the value in the state the action starts from.        *)
(***************************************************************************)
EXTENDS Integers, Sequences, FiniteSets

---------------------------------------------------------------------------
(* Values *)

\* null: no current home, no user, the fetch hooks' default data
Null == 0

\* parseInt's result on a string that does not start with a digit
NaN == -1

\* ids of the homes the listing can return (the ids of mockHomes)
HomeIds == {1, 2, 3}

\* ids that name no home of any listing: a selection persisted by an earlier
\* session whose home is gone, and an argument no listing contains
StaleIds == {9}

UnknownIds == {99}

\* requests of one fetcher in flight at once, at most
MaxInFlight == 2

---------------------------------------------------------------------------
(* Strings are sequences of one-character strings *)

DigitChars == <<"0", "1", "2", "3", "4", "5", "6", "7", "8", "9">>

IsDigit(c) == \E d \in 1..10 : DigitChars[d] = c

DigitValue(c) == (CHOOSE d \in 1..10 : DigitChars[d] = c) - 1

\* Number.prototype.toString() of a non-negative integer
RECURSIVE ToString(_)
ToString(n) ==
    IF n < 10 THEN <<DigitChars[n + 1]>>
    ELSE ToString(n \div 10) \o <<DigitChars[(n % 10) + 1]>>

\* value of the longest prefix of digits of s, given the value acc read so far
RECURSIVE ParseDigits(_, _)
ParseDigits(s, acc) ==
    IF s = <<>> \/ ~IsDigit(Head(s)) THEN acc
    ELSE ParseDigits(Tail(s), acc * 10 + DigitValue(Head(s)))

\* parseInt(s, 10) of a string without sign or leading blanks
ParseInt(s) ==
    IF s = <<>> \/ ~IsDigit(Head(s)) THEN NaN ELSE ParseDigits(s, 0)

---------------------------------------------------------------------------
(* localStorage: a store is [items: key -> string, log: calls made so far   *)
(* in the current task]                                                     *)

CURRENT_HOME_KEY == "smart_home_current_home_id"

AUTH_TOKEN_KEY == "auth_token"

USER_KEY == "user"

HasItem(items, k) == k \in DOMAIN items

SetItem(st, k, v) ==
    [items |-> [x \in (DOMAIN st.items) \cup {k} |-> IF x = k THEN v ELSE st.items[x]],
     log   |-> Append(st.log, [call |-> "setItem", key |-> k, value |-> v])]

RemoveItem(st, k) ==
    [items |-> [x \in (DOMAIN st.items) \ {k} |-> st.items[x]],
     log   |-> Append(st.log, [call |-> "removeItem", key |-> k, value |-> <<>>])]

---------------------------------------------------------------------------
VARIABLES
    (* HomeProvider *)
    started,        \* the provider's mount effect has run
    homes,          \* Home[] as the sequence of the homes' ids
    currentHomeId,  \* number | null
    homeIsLoading,  \* HomeProvider's isLoading
    homesLoadedFor, \* the email of the persisted session homes was loaded under, or <<>>
    (* window *)
    localStorage,   \* key -> string, for the keys that are set
    listeners,      \* the 'homeChanged' listeners registered on window
    (* the fetch hooks, one record per hook instance *)
    fetchers,
    (* AuthProvider *)
    authStarted,    \* the provider's mount effect has run
    user,           \* User | null
    authIsLoading,  \* AuthProvider's isLoading
    calls,          \* the login / register calls, each with the await it is at
    (* what the last task did *)
    lastCall,       \* the operation and its argument
    lsWrites,       \* its localStorage calls, in order
    dispatched,     \* the events it dispatched, in order
    notified,       \* its calls of a LightSwitch's onStateChange, in order
    (* the rooms' LightSwitch components, the sidebar and AutomationPage *)
    lights,         \* room -> the switch's state and the toggle it is awaiting
    roleOf,         \* home id -> the role field of that Home record
    navItems,       \* the items the sidebar rendered last
    page            \* what AutomationPage rendered last

homeVars == <<started, homes, currentHomeId, homeIsLoading, homesLoadedFor, listeners,
              fetchers, dispatched>>

authVars == <<authStarted, user, authIsLoading, calls>>

uiVars == <<lights, notified, roleOf, navItems, page>>

vars == <<homeVars, authVars, uiVars, localStorage, lastCall, lsWrites>>

---------------------------------------------------------------------------
(* The fetch hooks (useHomeRooms, useHomeDevices, useHomeData)              *)

Fetchers == {"useHomeData"}

\* useState's initial values; a hook that is not mounted holds these too
defaultValue == Null

UnmountedFetcher ==
    [mounted   |-> FALSE,
     data      |-> defaultValue,   \* the home whose data is shown, or the default
     isLoading |-> TRUE,
     error     |-> FALSE,          \* an Error is held
     inflight  |-> [h \in HomeIds |-> 0],  \* requests awaited, per home they were made for
     issued    |-> <<>>]           \* homes of the requests the last task made

RECURSIVE SumOver(_, _)
SumOver(cnt, S) ==
    IF S = {} THEN 0
    ELSE LET h == CHOOSE x \in S : TRUE IN cnt[h] + SumOver(cnt, S \ {h})

\* number of requests the hook is awaiting
InFlight(fs) == SumOver(fs.inflight, HomeIds)

\* fetchData that returns on a null home without setIsLoading(false)
fetchDataStillLoading(fs, homeId) ==
    IF homeId = Null
    THEN [fs EXCEPT !.data = defaultValue]
    ELSE [fs EXCEPT !.isLoading = TRUE,
                    !.error = FALSE,
                    !.inflight[homeId] = @ + 1,
                    !.issued = Append(@, homeId)]

\* fetchData() up to its await; homeId is the currentHomeId it closed over
fetchData(fs, homeId) ==
    IF homeId = Null
    THEN [fs EXCEPT !.data = defaultValue, !.isLoading = FALSE]
    ELSE [fs EXCEPT !.isLoading = TRUE,
                    !.error = FALSE,
                    !.inflight[homeId] = @ + 1,
                    !.issued = Append(@, homeId)]

\* FetchSettled with a catch that also resets the data
FetchSettledClearing(fs, homeId, ok) ==
    IF ok
    THEN [fs EXCEPT !.inflight[homeId] = @ - 1, !.data = homeId, !.isLoading = FALSE]
    ELSE [fs EXCEPT !.inflight[homeId] = @ - 1, !.data = defaultValue, !.error = TRUE,
                    !.isLoading = FALSE]

\* fetchData() after its await: the request made for homeId resolved or rejected
FetchSettled(fs, homeId, ok) ==
    IF ok
    THEN [fs EXCEPT !.inflight[homeId] = @ - 1, !.data = homeId, !.isLoading = FALSE]
    ELSE [fs EXCEPT !.inflight[homeId] = @ - 1, !.error = TRUE, !.isLoading = FALSE]

\* dispatchEvent that reaches no listener
dispatchEventDropped(fss, ls) == fss

\* window.dispatchEvent: every registered listener runs, each calling the
\* fetchData its handler closed over
dispatchEvent(fss, ls) ==
    [f \in Fetchers |->
        IF \E l \in ls : l.fetcher = f
        THEN LET l == CHOOSE x \in ls : x.fetcher = f
             IN  fetchData(fss[f], l.homeId)
        ELSE fss[f]]

\* the effects of a render in which currentHomeId is cur and was old in the
\* render before: useEffect(() => { fetchData() }, [fetchData]) runs when
\* fetchData, i.e. currentHomeId, changed
FetchEffects(fss, old, cur) ==
    [f \in Fetchers |->
        IF fss[f].mounted /\ cur # old THEN fetchData(fss[f], cur) ELSE fss[f]]

\* the listener effect of the same render: the old handler is removed, one
\* closing over the new fetchData is added
ListenerEffects(fss, cur) ==
    {[fetcher |-> f, homeId |-> cur] : f \in {g \in Fetchers : fss[g].mounted}}

NoneIssued(fss) == [f \in Fetchers |-> [fss[f] EXCEPT !.issued = <<>>]]

---------------------------------------------------------------------------
(* HomeProvider *)

HomeExists(hs, homeId) == \E i \in 1..Len(hs) : hs[i] = homeId

\* RestoreEffect with the default taken but not persisted
RestoreEffectNoPersist(hs, cur, st) ==
    IF Len(hs) > 0 /\ cur = Null
    THEN IF HasItem(st.items, CURRENT_HOME_KEY) /\ st.items[CURRENT_HOME_KEY] # <<>>
              /\ HomeExists(hs, ParseInt(st.items[CURRENT_HOME_KEY]))
         THEN [currentHomeId |-> ParseInt(st.items[CURRENT_HOME_KEY]), store |-> st]
         ELSE [currentHomeId |-> hs[1], store |-> st]
    ELSE [currentHomeId |-> cur, store |-> st]

\* the effect "Restore current home from localStorage", run after a render
\* with home list hs and current home cur; st is the store
RestoreEffect(hs, cur, st) ==
    IF Len(hs) > 0 /\ cur = Null
    THEN IF HasItem(st.items, CURRENT_HOME_KEY) /\ st.items[CURRENT_HOME_KEY] # <<>>
         THEN LET homeId == ParseInt(st.items[CURRENT_HOME_KEY])
              IN  IF HomeExists(hs, homeId)
                  THEN [currentHomeId |-> homeId, store |-> st]
                  ELSE [currentHomeId |-> hs[1],
                        store |-> SetItem(st, CURRENT_HOME_KEY, ToString(hs[1]))]
         ELSE [currentHomeId |-> hs[1],
               store |-> SetItem(st, CURRENT_HOME_KEY, ToString(hs[1]))]
    ELSE [currentHomeId |-> cur, store |-> st]

\* SwitchSelection that selects without persisting
SwitchSelectionNotPersisted(hs, cur, st, homeId) ==
    IF HomeExists(hs, homeId)
    THEN [currentHomeId |-> homeId, store |-> st]
    ELSE [currentHomeId |-> cur, store |-> st]

\* SwitchSelection without the homeExists check
SwitchSelectionUnchecked(hs, cur, st, homeId) ==
    [currentHomeId |-> homeId,
     store |-> SetItem(st, CURRENT_HOME_KEY, ToString(homeId))]

\* const homeExists = homes.some(...) and the branch taken on it, without the
\* dispatch: the new currentHomeId and the store
SwitchSelection(hs, cur, st, homeId) ==
    IF HomeExists(hs, homeId)
    THEN [currentHomeId |-> homeId,
          store |-> SetItem(st, CURRENT_HOME_KEY, ToString(homeId))]
    ELSE [currentHomeId |-> cur, store |-> st]

\* SwitchEvents with the dispatch left out
SwitchEventsNone(hs, homeId) == <<>>

\* the events switchHome dispatches on window
SwitchEvents(hs, homeId) ==
    IF HomeExists(hs, homeId)
    THEN <<[type |-> "homeChanged", detail |-> homeId]>>
    ELSE <<>>

---------------------------------------------------------------------------
(* The home-listing boundary, GET /homes: what loadHomes gets from it.      *)
(* loadHomes as shipped puts the literal mockHomes in the place of the      *)
(* call; that list is one of the responses.                                 *)

mockHomes == <<1, 2, 3>>

HomeLists ==
    {l \in UNION {[1..n -> HomeIds] : n \in 0..Cardinality(HomeIds)} :
        \A i, j \in DOMAIN l : i # j => l[i] # l[j]}

HomesResponses ==
    {[ok |-> TRUE, data |-> l] : l \in HomeLists} \cup {[ok |-> FALSE, data |-> <<>>]}

\* the selected-home key as an earlier session of the program left it
PersistedSelections == {ToString(n) : n \in HomeIds \cup StaleIds}

---------------------------------------------------------------------------
(* AuthProvider *)

\* the calls of login / register that can be running at once
MaxCalls == 2

Calls == 1..MaxCalls

IdleCall == [kind |-> "login", pc |-> "idle", email |-> <<>>]

\* null where a User is expected: no user in session
NoUser == [id |-> Null, email |-> <<>>, username |-> <<>>, full_name |-> <<>>]

\* useState's initial values
AuthConstructed ==
    /\ authStarted = FALSE
    /\ user = NoUser
    /\ authIsLoading = TRUE
    /\ calls = [c \in Calls |-> IdleCall]

\* String.prototype.split(sep) for a one-character separator
RECURSIVE Split(_, _)
Split(s, sep) ==
    IF \E i \in 1..Len(s) : s[i] = sep
    THEN LET i == CHOOSE k \in 1..Len(s) : s[k] = sep /\ \A j \in 1..(k - 1) : s[j] # sep
         IN  <<SubSeq(s, 1, i - 1)>> \o Split(SubSeq(s, i + 1, Len(s)), sep)
    ELSE <<s>>

\* Stringify that leaves full_name out
StringifyWithoutFullName(u) ==
    <<"{">> \o ToString(u.id) \o <<",">> \o u.email \o <<",">> \o u.username \o <<"}">>

\* JSON.stringify of a User: the text {id,email,username,full_name}
Stringify(u) ==
    <<"{">> \o ToString(u.id) \o <<",">> \o u.email \o <<",">> \o u.username
            \o <<",">> \o u.full_name \o <<"}">>

\* JSON.parse of such a text: [ok |-> FALSE] stands for the SyntaxError thrown
Parse(s) ==
    IF Len(s) >= 2 /\ s[1] = "{" /\ s[Len(s)] = "}"
    THEN LET fields == Split(SubSeq(s, 2, Len(s) - 1), ",")
         IN  IF Len(fields) = 4 /\ fields[1] # <<>>
                /\ \A i \in 1..Len(fields[1]) : IsDigit(fields[1][i])
             THEN [ok |-> TRUE,
                   value |-> [id |-> ParseInt(fields[1]), email |-> fields[2],
                              username |-> fields[3], full_name |-> fields[4]]]
             ELSE [ok |-> FALSE, value |-> Null]
    ELSE [ok |-> FALSE, value |-> Null]

\* the credentials tried, by email
Emails ==
    {<<"a", "@", "b", ".", "c", "o", "m">>, <<"c", "@", "d", ".", "c", "o", "m">>}

\* GET /auth/me: the account the boundary holds for an email
AccountOf(email) ==
    IF email = <<"a", "@", "b", ".", "c", "o", "m">>
    THEN [id |-> 1, email |-> email, username |-> <<"a">>, full_name |-> <<>>]
    ELSE [id |-> 2, email |-> email, username |-> <<"c", "a", "r", "o", "l">>,
          full_name |-> <<"C", " ", "D">>]

\* POST /auth/login: the access_token the boundary gives call c
TokenOf(c) == <<"T">> \o ToString(c)

\* the "mock user" login falls back to when /auth/me fails
MockUser(email) ==
    LET local == Split(email, "@")[1]
    IN  [id |-> 1,
         email |-> email,
         username |-> IF local # <<>> THEN local ELSE <<"u", "s", "e", "r">>,
         full_name |-> <<"D", "e", "m", "o", " ", "U", "s", "e", "r">>]

\* a cached user no JSON.parse accepts
CorruptUser == <<"{", "i", "d">>

HomeConstructed ==
    /\ started = FALSE
    /\ homes = <<>>
    /\ currentHomeId = Null
    /\ homeIsLoading = TRUE
    /\ homesLoadedFor = <<>>
    /\ listeners = {}
    /\ fetchers = [f \in Fetchers |-> UnmountedFetcher]
    /\ dispatched = <<>>

---------------------------------------------------------------------------
(* LightSwitch, one per room *)

\* the rooms shown, each with its LightSwitch
Rooms == {1, 2, 3}

LightStates == {"on", "off"}

\* useState(initialState), useState(false); pending holds the handleToggle
\* calls that are at their await, each with the lightState it closed over
\* and the newState it computed
LightSwitchConstructed(initialState) ==
    [lightState |-> initialState, isLoading |-> FALSE, pending |-> <<>>]

\* lightState === 'on' ? 'off' : 'on'
Flipped(lightState) == IF lightState = "on" THEN "off" ELSE "on"

\* handleToggle up to its await
ToggleStarted(sw) ==
    [lightState |-> Flipped(sw.lightState),
     isLoading  |-> TRUE,
     pending    |-> Append(sw.pending,
                           [lightState |-> sw.lightState,
                            newState |-> Flipped(sw.lightState)])]

\* ToggleSettled whose catch does not revert
ToggleSettledNotReverted(sw, ok) ==
    [lightState |-> sw.lightState, isLoading |-> FALSE, pending |-> Tail(sw.pending)]

\* handleToggle after its await: the request was answered (ok) or failed
ToggleSettled(sw, ok) ==
    [lightState |-> IF ok THEN sw.lightState ELSE Head(sw.pending).lightState,
     isLoading  |-> FALSE,
     pending    |-> Tail(sw.pending)]

\* the onStateChange calls of that continuation, for the switch of room
ToggleNotifications(sw, room, ok) ==
    IF ok THEN <<[room |-> room, state |-> Head(sw.pending).newState]>> ELSE <<>>

---------------------------------------------------------------------------
(* Roles: the sidebar's items and AutomationPage's gate *)

Roles == {"owner", "admin", "member", "guest"}

\* userRole when there is no current home
Undefined == "undefined"

\* the role field of the homes loadHomes ships with
mockRoles ==
    [h \in HomeIds |-> IF h = 1 THEN "owner" ELSE IF h = 2 THEN "member" ELSE "admin"]

\* restricted is: the item has a requiresRole
NAV_ITEMS ==
    <<[text |-> "Dashboard",  restricted |-> FALSE, requiresRole |-> {}],
      [text |-> "Homes",      restricted |-> FALSE, requiresRole |-> {}],
      [text |-> "Rooms",      restricted |-> FALSE, requiresRole |-> {}],
      [text |-> "Devices",    restricted |-> FALSE, requiresRole |-> {}],
      [text |-> "Automation", restricted |-> TRUE,
       requiresRole |-> {"owner", "admin", "member"}],
      [text |-> "Alerts",     restricted |-> FALSE, requiresRole |-> {}]>>

\* getFilteredNavItems without its filter
getFilteredNavItemsUnfiltered(userRole) == NAV_ITEMS

getFilteredNavItems(userRole) ==
    IF userRole = Undefined
    THEN NAV_ITEMS
    ELSE SelectSeq(NAV_ITEMS,
                   LAMBDA item : IF ~item.restricted THEN TRUE
                                 ELSE userRole \in item.requiresRole)

hasPermission(userRole, requiredRoles) ==
    IF userRole = Undefined THEN FALSE ELSE userRole \in requiredRoles

canViewAutomation(userRole) == hasPermission(userRole, {"owner", "admin", "member"})

\* currentHome?.role, currentHome being homes.find(h => h.id === currentHomeId)
CurrentRole(hs, cur, roles) == IF HomeExists(hs, cur) THEN roles[cur] ELSE Undefined

\* what AutomationPage renders
AutomationPage(hs, cur, roles) ==
    IF ~HomeExists(hs, cur) THEN "select a home"
    ELSE IF ~canViewAutomation(roles[cur]) THEN "access denied"
    ELSE "automation"

\* the components as constructed, the homes having the roles they ship with
UiConstructed ==
    /\ lights \in {[r \in Rooms |-> LightSwitchConstructed("off")]}
    /\ notified = <<>>
    /\ roleOf = mockRoles
    /\ navItems = <<>>
    /\ page = "not rendered"

---------------------------------------------------------------------------
Init ==
    /\ HomeConstructed
    /\ AuthConstructed
    /\ \/ localStorage = <<>>
       \/ \E v \in PersistedSelections :
            localStorage = [k \in {CURRENT_HOME_KEY} |-> v]
    /\ lastCall = [op |-> "init", who |-> "", arg |-> Null, outcome |-> "ok"]
    /\ UiConstructed
    /\ lsWrites = <<>>

WithinBounds(fss) == \A f \in Fetchers : InFlight(fss[f]) <= MaxInFlight

\* whose homes a request made now is for: the request interceptor sends the
\* persisted token, which is the token of the persisted user
SessionEmail(items) ==
    IF HasItem(items, AUTH_TOKEN_KEY) /\ HasItem(items, USER_KEY)
       /\ Parse(items[USER_KEY]).ok
    THEN Parse(items[USER_KEY]).value.email
    ELSE <<>>

\* LoadHomesResult with a catch that rethrows and no finally
LoadHomesResultRethrown(resp) ==
    IF resp.ok
    THEN [homes |-> resp.data, isLoading |-> FALSE, outcome |-> "ok"]
    ELSE [homes |-> <<>>, isLoading |-> TRUE, outcome |-> "thrown"]

\* the try / catch / finally of loadHomes: what it sets homes and isLoading
\* to, and how the call ends: "ok", "caught" (an error was caught inside and
\* the call resolves) or "thrown" (the call rejects)
LoadHomesResult(resp) ==
    IF resp.ok
    THEN [homes |-> resp.data, isLoading |-> FALSE, outcome |-> "ok"]
    ELSE [homes |-> <<>>, isLoading |-> FALSE, outcome |-> "caught"]

\* loadHomes() with the boundary's response resp, the render that follows
\* and that render's effects
loadHomes(resp) ==
    LET out == LoadHomesResult(resp)
        hs  == out.homes
        r   == RestoreEffect(hs, currentHomeId, [items |-> localStorage, log |-> <<>>])
        fss == FetchEffects(NoneIssued(fetchers), currentHomeId, r.currentHomeId)
    IN  /\ WithinBounds(fss)
        /\ homes' = hs
        /\ homeIsLoading' = out.isLoading
        /\ homesLoadedFor' = SessionEmail(localStorage)
        /\ currentHomeId' = r.currentHomeId
        /\ localStorage' = r.store.items
        /\ lsWrites' = r.store.log
        /\ fetchers' = fss
        /\ listeners' = ListenerEffects(fss, r.currentHomeId)
        /\ dispatched' = <<>>
        /\ UNCHANGED authVars

\* "Load homes on mount"
MountHomeProvider(resp) ==
    /\ ~started
    /\ started' = TRUE
    /\ lastCall' = [op |-> "loadHomes", who |-> "mount", arg |-> Null,
                    outcome |-> LoadHomesResult(resp).outcome]
    /\ UNCHANGED uiVars
    /\ loadHomes(resp)

refreshHomes(resp) ==
    /\ started
    /\ lastCall' = [op |-> "refreshHomes", who |-> "", arg |-> Null,
                    outcome |-> LoadHomesResult(resp).outcome]
    /\ UNCHANGED uiVars
    /\ loadHomes(resp)
    /\ UNCHANGED started

switchHome(homeId) ==
    LET sel  == SwitchSelection(homes, currentHomeId,
                                [items |-> localStorage, log |-> <<>>], homeId)
        evs  == SwitchEvents(homes, homeId)
        \* the listeners run inside dispatchEvent, before the render
        heard == IF evs = <<>> THEN NoneIssued(fetchers)
                 ELSE dispatchEvent(NoneIssued(fetchers), listeners)
        r    == RestoreEffect(homes, sel.currentHomeId, sel.store)
        fss  == FetchEffects(heard, currentHomeId, r.currentHomeId)
    IN  /\ started
        /\ WithinBounds(fss)
        /\ lastCall' = [op |-> "switchHome", who |-> "", arg |-> homeId, outcome |-> "ok"]
        /\ UNCHANGED uiVars
        /\ currentHomeId' = r.currentHomeId
        /\ localStorage' = r.store.items
        /\ lsWrites' = r.store.log
        /\ dispatched' = evs
        /\ fetchers' = fss
        /\ listeners' = ListenerEffects(fss, r.currentHomeId)
        /\ UNCHANGED <<authVars, started, homes, homesLoadedFor, homeIsLoading>>

\* a component using the hook mounts: first render, then both effects
MountFetcher(f) ==
    LET fresh == [UnmountedFetcher EXCEPT !.mounted = TRUE]
        fss   == [NoneIssued(fetchers) EXCEPT ![f] = fetchData(fresh, currentHomeId)]
    IN  /\ ~fetchers[f].mounted
        /\ lastCall' = [op |-> "mount", who |-> f, arg |-> Null, outcome |-> "ok"]
        /\ UNCHANGED uiVars
        /\ fetchers' = fss
        /\ listeners' = ListenerEffects(fss, currentHomeId)
        /\ lsWrites' = <<>>
        /\ dispatched' = <<>>
        /\ UNCHANGED <<authVars, started, homes, homesLoadedFor, currentHomeId, homeIsLoading, localStorage>>

\* it unmounts: the listener effect's cleanup runs; what its requests bring
\* later is set on an instance that is gone
UnmountFetcher(f) ==
    LET fss == [NoneIssued(fetchers) EXCEPT ![f] = UnmountedFetcher]
    IN  /\ fetchers[f].mounted
        /\ lastCall' = [op |-> "unmount", who |-> f, arg |-> Null, outcome |-> "ok"]
        /\ UNCHANGED uiVars
        /\ fetchers' = fss
        /\ listeners' = ListenerEffects(fss, currentHomeId)
        /\ lsWrites' = <<>>
        /\ dispatched' = <<>>
        /\ UNCHANGED <<authVars, started, homes, homesLoadedFor, currentHomeId, homeIsLoading, localStorage>>

\* the consumer calls refetch
Refetch(f) ==
    LET fss == [NoneIssued(fetchers) EXCEPT ![f] = fetchData(@, currentHomeId)]
    IN  /\ fetchers[f].mounted
        /\ WithinBounds(fss)
        /\ lastCall' = [op |-> "refetch", who |-> f, arg |-> Null, outcome |-> "ok"]
        /\ UNCHANGED uiVars
        /\ fetchers' = fss
        /\ lsWrites' = <<>>
        /\ dispatched' = <<>>
        /\ UNCHANGED <<authVars, started, homes, homesLoadedFor, currentHomeId, homeIsLoading, localStorage,
                       listeners>>

\* a request made for home homeId resolves (ok) or rejects
FetchDone(f, homeId, ok) ==
    /\ fetchers[f].mounted
    /\ fetchers[f].inflight[homeId] > 0
    /\ lastCall' = [op |-> IF ok THEN "fetchResolved" ELSE "fetchRejected",
                    who |-> f, arg |-> homeId,
                    outcome |-> IF ok THEN "ok" ELSE "caught"]
    /\ UNCHANGED uiVars
    /\ fetchers' = [NoneIssued(fetchers) EXCEPT ![f] = FetchSettled(@, homeId, ok)]
    /\ lsWrites' = <<>>
    /\ dispatched' = <<>>
    /\ UNCHANGED <<authVars, started, homes, homesLoadedFor, currentHomeId, homeIsLoading, localStorage,
                   listeners>>

---------------------------------------------------------------------------
(* AuthProvider's operations *)

Store == [items |-> localStorage, log |-> <<>>]

Truthy(items, k) == HasItem(items, k) /\ items[k] # <<>>

\* RestoreSession whose catch removes the cached user only
RestoreSessionKeepToken(st) ==
    IF Truthy(st.items, AUTH_TOKEN_KEY) /\ Truthy(st.items, USER_KEY)
    THEN LET parsed == Parse(st.items[USER_KEY])
         IN  IF parsed.ok
             THEN [user |-> parsed.value, store |-> st]
             ELSE [user |-> NoUser, store |-> RemoveItem(st, USER_KEY)]
    ELSE [user |-> NoUser, store |-> st]

\* the effect "Check if user is already logged in": [user, store]
RestoreSession(st) ==
    IF Truthy(st.items, AUTH_TOKEN_KEY) /\ Truthy(st.items, USER_KEY)
    THEN LET parsed == Parse(st.items[USER_KEY])
         IN  IF parsed.ok
             THEN [user |-> parsed.value, store |-> st]
             ELSE [user |-> NoUser,
                   store |-> RemoveItem(RemoveItem(st, AUTH_TOKEN_KEY), USER_KEY)]
    ELSE [user |-> NoUser, store |-> st]

AuthProviderMount ==
    LET r == RestoreSession(Store)
    IN  /\ ~authStarted
        /\ authStarted' = TRUE
        /\ user' = r.user
        /\ authIsLoading' = FALSE
        /\ localStorage' = r.store.items
        /\ lsWrites' = r.store.log
        /\ lastCall' = [op |-> "restore", who |-> "", arg |-> Null, outcome |-> "ok"]
        /\ UNCHANGED uiVars
        /\ UNCHANGED <<homeVars, calls>>

Settled(c) == calls[c].pc \in {"idle", "resolved", "rejected"}

\* login(credentials) up to await api.login(credentials)
login(c, email) ==
    /\ authStarted
    /\ Settled(c)
    /\ calls' = [calls EXCEPT ![c] = [kind |-> "login", pc |-> "login", email |-> email]]
    /\ lastCall' = [op |-> "login", who |-> "", arg |-> c, outcome |-> "ok"]
    /\ UNCHANGED uiVars
    /\ lsWrites' = <<>>
    /\ UNCHANGED <<homeVars, authStarted, user, authIsLoading, localStorage>>

\* register(data) up to await api.register(data)
register(c, email) ==
    /\ authStarted
    /\ Settled(c)
    /\ calls' = [calls EXCEPT ![c] = [kind |-> "register", pc |-> "register", email |-> email]]
    /\ lastCall' = [op |-> "register", who |-> "", arg |-> c, outcome |-> "ok"]
    /\ UNCHANGED uiVars
    /\ lsWrites' = <<>>
    /\ UNCHANGED <<homeVars, authStarted, user, authIsLoading, localStorage>>

\* POST /auth/register answers: register goes on to login(...), or throws
RegisterResponse(c, ok) ==
    /\ calls[c].pc = "register"
    /\ calls' = [calls EXCEPT ![c].pc = IF ok THEN "login" ELSE "rejected"]
    /\ lastCall' = [op |-> "registerResponse", who |-> "", arg |-> c,
                    outcome |-> IF ok THEN "ok" ELSE "thrown"]
    /\ UNCHANGED uiVars
    /\ lsWrites' = <<>>
    /\ UNCHANGED <<homeVars, authStarted, user, authIsLoading, localStorage>>

\* SaveToken that stores the token whatever the answer
SaveTokenUnchecked(st, c, ok) == SetItem(st, AUTH_TOKEN_KEY, TokenOf(c))

\* localStorage.setItem('auth_token', response.access_token), reached only
\* when await api.login(credentials) did not throw
SaveToken(st, c, ok) ==
    IF ok THEN SetItem(st, AUTH_TOKEN_KEY, TokenOf(c)) ELSE st

\* POST /auth/login answers: the token is saved and /auth/me requested, or
\* login throws 'Invalid credentials'
LoginResponse(c, ok) ==
    LET st == SaveToken(Store, c, ok)
    IN  /\ calls[c].pc = "login"
        /\ calls' = [calls EXCEPT ![c].pc = IF ok THEN "me" ELSE "rejected"]
        /\ localStorage' = st.items
        /\ lsWrites' = st.log
        /\ lastCall' = [op |-> "loginResponse", who |-> "", arg |-> c,
                        outcome |-> IF ok THEN "ok" ELSE "thrown"]
        /\ UNCHANGED uiVars
        /\ UNCHANGED <<homeVars, authStarted, user, authIsLoading>>

\* the user login ends with: the boundary's, or the mock user
LoginUser(email, ok) == IF ok THEN AccountOf(email) ELSE MockUser(email)

\* GET /auth/me answers or fails: either way a user is saved and set
MeResponse(c, ok) ==
    LET u  == LoginUser(calls[c].email, ok)
        st == SetItem(Store, USER_KEY, Stringify(u))
    IN  /\ calls[c].pc = "me"
        /\ calls' = [calls EXCEPT ![c].pc = "resolved"]
        /\ user' = u
        /\ localStorage' = st.items
        /\ lsWrites' = st.log
        /\ lastCall' = [op |-> "meResponse", who |-> "", arg |-> c,
                        outcome |-> IF ok THEN "ok" ELSE "caught"]
        /\ UNCHANGED uiVars
        /\ UNCHANGED <<homeVars, authStarted, authIsLoading>>

\* LogoutResult that clears the selected home as well
LogoutResultEverything(u, st) ==
    [user |-> NoUser,
     store |-> RemoveItem(RemoveItem(RemoveItem(st, AUTH_TOKEN_KEY), USER_KEY),
                          CURRENT_HOME_KEY)]

\* LogoutResult that removes the token only
LogoutResultTokenOnly(u, st) ==
    [user |-> NoUser, store |-> RemoveItem(st, AUTH_TOKEN_KEY)]

\* the body of logout on the session user u and the store st: [user, store]
LogoutResult(u, st) ==
    [user |-> NoUser, store |-> RemoveItem(RemoveItem(st, AUTH_TOKEN_KEY), USER_KEY)]

logout ==
    LET r == LogoutResult(user, Store)
    IN  /\ authStarted
        /\ user' = r.user
        /\ localStorage' = r.store.items
        /\ lsWrites' = r.store.log
        /\ lastCall' = [op |-> "logout", who |-> "", arg |-> Null, outcome |-> "ok"]
        /\ UNCHANGED uiVars
        /\ UNCHANGED <<homeVars, authStarted, authIsLoading, calls>>

\* the page is reloaded: the provider is constructed anew over the same
\* localStorage, and the calls of the old page are gone
Reload ==
    /\ authStarted
    /\ authStarted' = FALSE
    /\ user' = NoUser
    /\ authIsLoading' = TRUE
    /\ calls' = [c \in Calls |-> IdleCall]
    /\ lastCall' = [op |-> "reload", who |-> "", arg |-> Null, outcome |-> "ok"]
    /\ UNCHANGED uiVars
    /\ lsWrites' = <<>>
    /\ UNCHANGED <<homeVars, localStorage>>

InitAuth ==
    /\ HomeConstructed
    /\ AuthConstructed
    /\ \/ localStorage = <<>>
       \/ localStorage = [k \in {AUTH_TOKEN_KEY, USER_KEY} |->
                            IF k = USER_KEY THEN CorruptUser ELSE <<"T", "0">>]
    /\ lastCall = [op |-> "init", who |-> "", arg |-> Null, outcome |-> "ok"]
    /\ UiConstructed
    /\ lsWrites = <<>>

NextAuth ==
    \/ AuthProviderMount
    \/ \E c \in Calls, email \in Emails : login(c, email)
    \/ \E c \in Calls, email \in Emails : register(c, email)
    \/ \E c \in Calls, ok \in BOOLEAN : RegisterResponse(c, ok)
    \/ \E c \in Calls, ok \in BOOLEAN : LoginResponse(c, ok)
    \/ \E c \in Calls, ok \in BOOLEAN : MeResponse(c, ok)
    \/ logout
    \/ Reload

SpecAuth == InitAuth /\ [][NextAuth]_vars

---------------------------------------------------------------------------
(* The application: <AuthProvider><HomeProvider>...: both providers are     *)
(* constructed once, at the root, and live until the page goes. The forms   *)
(* that call login disable their submit button while a call runs; here the  *)
(* session operations come one at a time: a login starts, and logout is     *)
(* called, only when no call is running. On the first commit the effects    *)
(* of HomeProvider, the child, run before those of AuthProvider.            *)

\* the session an earlier visit left in localStorage
PersistedSessions ==
    {[k \in {AUTH_TOKEN_KEY, USER_KEY} |->
        IF k = USER_KEY THEN Stringify(AccountOf(email)) ELSE <<"T", "0">>] : email \in Emails}

InitApp ==
    /\ HomeConstructed
    /\ AuthConstructed
    /\ localStorage \in {<<>>} \cup PersistedSessions
    /\ lastCall = [op |-> "init", who |-> "", arg |-> Null, outcome |-> "ok"]
    /\ UiConstructed
    /\ lsWrites = <<>>

\* what loadHomes gets here: the list it ships with, or a failure
ShippedResponses ==
    {[ok |-> TRUE, data |-> mockHomes], [ok |-> FALSE, data |-> <<>>]}

NoCallRunning == \A c \in Calls : Settled(c)

NextApp ==
    \/ started /\ AuthProviderMount
    \/ \E resp \in ShippedResponses : MountHomeProvider(resp)
    \/ \E resp \in ShippedResponses : authStarted /\ refreshHomes(resp)
    \/ \E c \in Calls, email \in Emails : started /\ NoCallRunning /\ login(c, email)
    \/ \E c \in Calls, ok \in BOOLEAN : LoginResponse(c, ok)
    \/ \E c \in Calls, ok \in BOOLEAN : MeResponse(c, ok)
    \/ started /\ NoCallRunning /\ logout

SpecApp == InitApp /\ [][NextApp]_vars

\* the calls coming one at a time, one record is enough for them
TheCall == CHOOSE c \in Calls : TRUE

\* the application with every operation that touches localStorage
NextKeys ==
    \/ started /\ AuthProviderMount
    \/ \E resp \in ShippedResponses : MountHomeProvider(resp)
    \/ \E resp \in ShippedResponses : authStarted /\ refreshHomes(resp)
    \/ \E homeId \in HomeIds \cup UnknownIds : authStarted /\ switchHome(homeId)
    \/ \E email \in Emails : started /\ NoCallRunning /\ login(TheCall, email)
    \/ \E email \in Emails : started /\ NoCallRunning /\ register(TheCall, email)
    \/ \E ok \in BOOLEAN : RegisterResponse(TheCall, ok)
    \/ \E ok \in BOOLEAN : LoginResponse(TheCall, ok)
    \/ \E ok \in BOOLEAN : MeResponse(TheCall, ok)
    \/ started /\ NoCallRunning /\ logout

SpecKeys == InitApp /\ [][NextKeys]_vars

---------------------------------------------------------------------------
(* The rooms' light switches *)

InitLight ==
    /\ HomeConstructed
    /\ AuthConstructed
    /\ localStorage = <<>>
    /\ lastCall = [op |-> "init", who |-> "", arg |-> Null, outcome |-> "ok"]
    /\ lsWrites = <<>>
    /\ lights \in [Rooms -> {LightSwitchConstructed(initialState) :
                                initialState \in LightStates}]
    /\ notified = <<>>
    /\ roleOf = mockRoles
    /\ navItems = <<>>
    /\ page = "not rendered"

\* the Switch's onChange; the Switch is disabled while isLoading
handleToggle(room) ==
    /\ ~lights[room].isLoading
    /\ lights' = [lights EXCEPT ![room] = ToggleStarted(@)]
    /\ notified' = <<>>
    /\ lastCall' = [op |-> "handleToggle", who |-> "", arg |-> room, outcome |-> "ok"]
    /\ lsWrites' = <<>>
    /\ UNCHANGED <<homeVars, authVars, localStorage, roleOf, navItems, page>>

\* api.turnLightOn / turnLightOff answers or fails
ToggleDone(room, ok) ==
    /\ lights[room].pending # <<>>
    /\ lights' = [lights EXCEPT ![room] = ToggleSettled(@, ok)]
    /\ notified' = ToggleNotifications(lights[room], room, ok)
    /\ lastCall' = [op |-> IF ok THEN "toggleResolved" ELSE "toggleRejected",
                    who |-> "", arg |-> room,
                    outcome |-> IF ok THEN "ok" ELSE "caught"]
    /\ lsWrites' = <<>>
    /\ UNCHANGED <<homeVars, authVars, localStorage, roleOf, navItems, page>>

NextLight ==
    \/ \E room \in Rooms : handleToggle(room)
    \/ \E room \in Rooms, ok \in BOOLEAN : ToggleDone(room, ok)

SpecLight == InitLight /\ [][NextLight]_vars

---------------------------------------------------------------------------
(* The sidebar and AutomationPage over the Home Registry *)

InitNav ==
    /\ HomeConstructed
    /\ AuthConstructed
    /\ localStorage = <<>>
    /\ lastCall = [op |-> "init", who |-> "", arg |-> Null, outcome |-> "ok"]
    /\ lsWrites = <<>>
    /\ lights \in {[r \in Rooms |-> LightSwitchConstructed("off")]}
    /\ notified = <<>>
    /\ roleOf \in [HomeIds -> Roles]
    /\ navItems = <<>>
    /\ page = "not rendered"

\* the sidebar renders; it is under ProtectedRoute, which shows nothing of
\* the layout before the providers' mount effects have run
RenderSidebar ==
    /\ started
    /\ navItems' = getFilteredNavItems(CurrentRole(homes, currentHomeId, roleOf))
    /\ lastCall' = [op |-> "renderSidebar", who |-> "", arg |-> Null, outcome |-> "ok"]
    /\ lsWrites' = <<>>
    /\ UNCHANGED <<homeVars, authVars, localStorage, lights, notified, roleOf, page>>

\* /automation is opened: AutomationPage renders
RenderAutomationPage ==
    /\ started
    /\ page' = AutomationPage(homes, currentHomeId, roleOf)
    /\ lastCall' = [op |-> "renderAutomationPage", who |-> "", arg |-> Null,
                    outcome |-> "ok"]
    /\ lsWrites' = <<>>
    /\ UNCHANGED <<homeVars, authVars, localStorage, lights, notified, roleOf, navItems>>

NextNav ==
    \/ \E resp \in ShippedResponses : MountHomeProvider(resp)
    \/ \E homeId \in HomeIds : switchHome(homeId)
    \/ RenderSidebar
    \/ RenderAutomationPage

SpecNav == InitNav /\ [][NextNav]_vars

Next ==
    \/ \E resp \in HomesResponses : MountHomeProvider(resp)
    \/ \E resp \in HomesResponses : refreshHomes(resp)
    \/ \E homeId \in HomeIds \cup UnknownIds : switchHome(homeId)
    \/ \E f \in Fetchers : MountFetcher(f)
    \/ \E f \in Fetchers : UnmountFetcher(f)
    \/ \E f \in Fetchers : Refetch(f)
    \/ \E f \in Fetchers, homeId \in HomeIds, ok \in BOOLEAN : FetchDone(f, homeId, ok)

Spec == Init /\ [][Next]_vars

---------------------------------------------------------------------------
(* Properties of the Home Registry and the fetch hooks, under Spec          *)

HomeIdSet(hs) == {hs[i] : i \in DOMAIN hs}

SwitchedTo(homeId) == lastCall.op = "switchHome" /\ lastCall.arg = homeId

\* the persisted-or-first home of list hs, given the stored items
PersistedOrFirst(hs, items) ==
    IF HasItem(items, CURRENT_HOME_KEY)
       /\ \E h \in HomeIdSet(hs) : items[CURRENT_HOME_KEY] = ToString(h)
    THEN CHOOSE h \in HomeIdSet(hs) : items[CURRENT_HOME_KEY] = ToString(h)
    ELSE hs[1]

WroteSelection(homeId) ==
    <<[call |-> "setItem", key |-> CURRENT_HOME_KEY, value |-> ToString(homeId)]>>

\* C1. Stale-response suppression: a response to a request that a fetcher made
\* for a home other than the one current when the response arrives is
\* discarded: the fetcher's data stays what it was.
C1_StaleResponseDiscarded ==
    [][\A f \in Fetchers :
         (lastCall'.op = "fetchResolved" /\ lastCall'.who = f
            /\ lastCall'.arg # currentHomeId')
         => fetchers'[f].data = fetchers[f].data]_vars

\* C2. A successful switchHome(id) makes every mounted fetcher initiate
\* exactly one fetch, the listener's and the effect's counted together.
C2_OneFetchPerSwitch ==
    (lastCall.op = "switchHome" /\ lastCall.arg \in HomeIdSet(homes))
    => \A f \in Fetchers : fetchers[f].mounted => Len(fetchers[f].issued) = 1

\* C3. Every fetch a mounted fetcher initiates in reaction to a successful
\* switchHome(id) is made for home id, never for the home current before.
C3_SwitchFetchesNewHome ==
    (lastCall.op = "switchHome" /\ lastCall.arg \in HomeIdSet(homes))
    => \A f \in Fetchers : \A i \in DOMAIN fetchers[f].issued :
          fetchers[f].issued[i] = lastCall.arg

C6_SwitchUnknownIsNoOp ==
    [][\A homeId \in HomeIds \cup UnknownIds :
         (lastCall'.op = "switchHome" /\ lastCall'.arg = homeId
            /\ homeId \notin HomeIdSet(homes))
         => /\ currentHomeId' = currentHomeId
            /\ homes' = homes
            /\ localStorage' = localStorage
            /\ lsWrites' = <<>>
            /\ dispatched' = <<>>]_vars

C6_Witness ==
    /\ SwitchedTo(99)
    /\ homes = <<1, 2>>
    /\ currentHomeId = 1
    /\ dispatched = <<>>

\* C7. switchHome(homeId) with homeId in the home set makes homeId current,
\* writes its decimal string to the selected-home key and dispatches exactly
\* one 'homeChanged' event, whose detail is homeId.
C7_SwitchKnownSelects ==
    [][\A homeId \in HomeIds \cup UnknownIds :
         (lastCall'.op = "switchHome" /\ lastCall'.arg = homeId
            /\ homeId \in HomeIdSet(homes))
         => /\ currentHomeId' = homeId
            /\ HasItem(localStorage', CURRENT_HOME_KEY)
            /\ localStorage'[CURRENT_HOME_KEY] = ToString(homeId)
            /\ lsWrites' = WroteSelection(homeId)
            /\ dispatched' = <<[type |-> "homeChanged", detail |-> homeId]>>]_vars

C7_Witness ==
    /\ SwitchedTo(2)
    /\ homes = <<1, 2>>
    /\ currentHomeId = 2
    /\ Len(dispatched) = 1

\* C8. Selection repair: when the home set becomes non-empty while no home is
\* selected, a persisted identifier that is in the loaded set becomes current
\* and storage is not written; otherwise the first home of the loaded set
\* becomes current and its identifier is written to the key.
C8_SelectionRepair ==
    [][(currentHomeId = Null /\ Len(homes') > 0)
         => IF HasItem(localStorage, CURRENT_HOME_KEY)
               /\ \E h \in HomeIdSet(homes') : localStorage[CURRENT_HOME_KEY] = ToString(h)
            THEN /\ localStorage[CURRENT_HOME_KEY] = ToString(currentHomeId')
                 /\ lsWrites' = <<>>
                 /\ localStorage' = localStorage
            ELSE /\ currentHomeId' = homes'[1]
                 /\ lsWrites' = WroteSelection(homes'[1])
                 /\ HasItem(localStorage', CURRENT_HOME_KEY)
                 /\ localStorage'[CURRENT_HOME_KEY] = ToString(homes'[1])]_vars

\* the stale selection "9" was replaced by the first home of <<2, 1>>
C8_Witness ==
    /\ lastCall.op = "loadHomes"
    /\ homes = <<2, 1>>
    /\ currentHomeId = 2
    /\ lsWrites = WroteSelection(2)

C11_LoadFailureEmptiesHomes ==
    (lastCall.op \in {"loadHomes", "refreshHomes"} /\ lastCall.outcome # "ok")
        => /\ homes = <<>>
           /\ homeIsLoading = FALSE
           /\ lastCall.outcome = "caught"

\* a refreshHomes() that failed after a load that had brought homes
C11_Witness ==
    /\ lastCall.op = "refreshHomes"
    /\ lastCall.outcome = "caught"
    /\ currentHomeId # Null
    /\ homes = <<>>
    /\ homeIsLoading = FALSE

\* C12. A fetcher triggered (by its mount or by refetch) while currentHomeId
\* is null holds the default data, has its loading flag cleared and has
\* issued no request.
C12_NullHomeNoRequest ==
    \A f \in Fetchers :
        (lastCall.op \in {"mount", "refetch"} /\ lastCall.who = f /\ currentHomeId = Null)
            => /\ fetchers[f].data = defaultValue
               /\ fetchers[f].isLoading = FALSE
               /\ fetchers[f].issued = <<>>

\* refetch called while the registry has loaded and holds no home
C12_Witness ==
    /\ lastCall.op = "refetch"
    /\ started
    /\ currentHomeId = Null
    /\ fetchers["useHomeData"].isLoading = FALSE

\* C13. When a home-scoped fetch fails, the fetcher's data is what it was,
\* its error is set, its loading flag is cleared, and the call resolves: the
\* error is caught inside, never thrown.
C13_FetchFailureKeepsData ==
    [][\A f \in Fetchers :
         (lastCall'.op = "fetchRejected" /\ lastCall'.who = f)
            => /\ fetchers'[f].data = fetchers[f].data
               /\ fetchers'[f].error = TRUE
               /\ fetchers'[f].isLoading = FALSE
               /\ lastCall'.outcome = "caught"]_vars

\* a fetch failed while the data of an earlier fetch was shown
C13_Witness ==
    /\ lastCall.op = "fetchRejected"
    /\ fetchers["useHomeData"].data # defaultValue
    /\ fetchers["useHomeData"].error = TRUE
    /\ fetchers["useHomeData"].isLoading = FALSE

C24_LoadingWhileInFlight ==
    \A f \in Fetchers :
        (fetchers[f].mounted /\ InFlight(fetchers[f]) > 0) => fetchers[f].isLoading

\* C29. Whenever currentHomeId is non-null, the persisted selected-home key
\* holds the decimal string of that identifier.
C29_SelectionPersisted ==
    currentHomeId # Null
        => /\ HasItem(localStorage, CURRENT_HOME_KEY)
           /\ localStorage[CURRENT_HOME_KEY] = ToString(currentHomeId)

\* a valid switchHome(3): the key follows the selection
C29_Witness ==
    /\ lastCall.op = "switchHome"
    /\ lastCall.arg = 3
    /\ currentHomeId = 3
    /\ lsWrites = WroteSelection(3)
    /\ localStorage[CURRENT_HOME_KEY] = ToString(3)

---------------------------------------------------------------------------
(* Properties of the Session Store, under SpecAuth                          *)

\* C5. Once startup restoration has run, in every state, the states between
\* the steps of a login included, the persisted token is set if and only if
\* the session user is non-null.
C5_TokenIffUser ==
    authStarted => (HasItem(localStorage, AUTH_TOKEN_KEY) <=> user # NoUser)

\* the localStorage calls of the last task include a write of the token
TokenWritten(log) ==
    \E i \in DOMAIN log : log[i].call = "setItem" /\ log[i].key = AUTH_TOKEN_KEY

\* C14. A login call that fails leaves no partly set session: neither its
\* start nor its rejection changes the persisted token, the persisted user or
\* the in-memory user. The token is written only by a login that goes on to
\* complete: the task that writes it leaves the call awaiting /auth/me, and
\* a call awaiting /auth/me only ever resolves (or ends with the page).
C14_FailedLoginWritesNothing ==
    [][/\ \A c \in Calls :
            (/\ lastCall'.op \in {"login", "loginResponse"}
             /\ lastCall'.arg = c
             /\ calls'[c].pc \in {"login", "rejected"})
                => /\ localStorage' = localStorage
                   /\ user' = user
                   /\ lsWrites' = <<>>
       /\ TokenWritten(lsWrites')
            => /\ lastCall'.op = "loginResponse"
               /\ calls'[lastCall'.arg].pc = "me"
       /\ \A c \in Calls :
            (calls[c].pc = "me" /\ calls'[c] # calls[c])
                => \/ calls'[c].pc = "resolved"
                   \/ lastCall'.op = "reload"]_vars

\* a login was rejected while a session was held, and the session is held
C14_Witness ==
    /\ lastCall.op = "loginResponse"
    /\ lastCall.outcome = "thrown"
    /\ calls[lastCall.arg].kind = "login"
    /\ calls[lastCall.arg].pc = "rejected"
    /\ user # NoUser
    /\ HasItem(localStorage, AUTH_TOKEN_KEY)
    /\ HasItem(localStorage, USER_KEY)

\* the part of an email before its first '@'
LocalPart(email) ==
    LET at == CHOOSE i \in 1..Len(email) :
                email[i] = "@" /\ \A j \in 1..(i - 1) : email[j] # "@"
    IN  SubSeq(email, 1, at - 1)

\* the session is authenticated with the token POST /auth/login gave call c
HoldsTokenOf(items, c) ==
    HasItem(items, AUTH_TOKEN_KEY) /\ items[AUTH_TOKEN_KEY] = TokenOf(c)

\* C15. When /auth/login succeeded and /auth/me fails, login completes
\* successfully and the session holds the new token together with a
\* synthesized user whose email is the supplied email and whose username is
\* that email's local part; the same user is persisted.
C15_MeFailureSynthesizesUser ==
    [][\A c \in Calls :
         (lastCall'.op = "meResponse" /\ lastCall'.arg = c /\ lastCall'.outcome = "caught")
            => /\ calls'[c].pc = "resolved"
               /\ HoldsTokenOf(localStorage', c)
               /\ user'.email = calls[c].email
               /\ user'.username = LocalPart(calls[c].email)
               /\ HasItem(localStorage', USER_KEY)
               /\ Parse(localStorage'[USER_KEY]) = [ok |-> TRUE, value |-> user']]_vars

\* C16. Whenever register completes successfully the session is
\* authenticated, token and user both set, for the registered email; whenever
\* it rejects, it is the account creation or the login after it that failed,
\* and the task that rejects leaves the persisted token, the persisted user
\* and the in-memory user as they were.
C16_RegisterEndsAuthenticated ==
    [][\A c \in Calls :
         (/\ lastCall'.op \in {"registerResponse", "loginResponse", "meResponse"}
          /\ lastCall'.arg = c
          /\ calls'[c].kind = "register")
            => /\ calls'[c].pc = "resolved"
                    => /\ HoldsTokenOf(localStorage', c)
                       /\ user' # NoUser
                       /\ user'.email = calls[c].email
                       /\ HasItem(localStorage', USER_KEY)
               /\ calls'[c].pc = "rejected"
                    => /\ lastCall'.op \in {"registerResponse", "loginResponse"}
                       /\ lastCall'.outcome = "thrown"
                       /\ localStorage' = localStorage
                       /\ user' = user]_vars

\* C17. logout(), from any state, leaves neither the persisted token nor the
\* persisted user, sets the in-memory user to null and does not fail; it is
\* idempotent: logging out of the state it leaves gives that state again.
C17_LogoutClearsAndIsIdempotent ==
    /\ lastCall.op = "logout"
            => /\ ~HasItem(localStorage, AUTH_TOKEN_KEY)
               /\ ~HasItem(localStorage, USER_KEY)
               /\ user = NoUser
               /\ lastCall.outcome = "ok"
    /\ LET once  == LogoutResult(user, Store)
           twice == LogoutResult(once.user, [items |-> once.store.items, log |-> <<>>])
       IN  /\ twice.user = once.user
           /\ twice.store.items = once.store.items
           /\ twice.user = NoUser
           /\ ~HasItem(twice.store.items, AUTH_TOKEN_KEY)
           /\ ~HasItem(twice.store.items, USER_KEY)

\* logout ran after a login had completed
C17_Witness ==
    /\ lastCall.op = "logout"
    /\ \E c \in Calls : calls[c].pc = "resolved"
    /\ user = NoUser
    /\ lsWrites = <<[call |-> "removeItem", key |-> AUTH_TOKEN_KEY, value |-> <<>>],
                    [call |-> "removeItem", key |-> USER_KEY, value |-> <<>>]>>

\* C18. Startup restoration that finds a persisted token and a cached user
\* that cannot be parsed removes both keys and starts unauthenticated: user
\* null, isLoading false.
C18_CorruptCacheCleared ==
    [][(/\ lastCall'.op = "restore"
        /\ Truthy(localStorage, AUTH_TOKEN_KEY)
        /\ Truthy(localStorage, USER_KEY)
        /\ ~Parse(localStorage[USER_KEY]).ok)
            => /\ ~HasItem(localStorage', AUTH_TOKEN_KEY)
               /\ ~HasItem(localStorage', USER_KEY)
               /\ user' = NoUser
               /\ authIsLoading' = FALSE
               /\ authStarted' = TRUE]_vars

\* restoration ran and removed both keys
C18_Witness ==
    /\ lastCall.op = "restore"
    /\ lsWrites = <<[call |-> "removeItem", key |-> AUTH_TOKEN_KEY, value |-> <<>>],
                    [call |-> "removeItem", key |-> USER_KEY, value |-> <<>>]>>
    /\ user = NoUser
    /\ authIsLoading = FALSE

\* C19. Round trip: for every session a successful login persisted (a token,
\* and the user that login set, as login wrote it), a reload (fresh memory,
\* same localStorage) followed by startup restoration gives a session with
\* the same token and the identical user: localStorage is not touched and no
\* request is made.
C19_ReloadRestoresSession ==
    [][\A email \in Emails, ok \in BOOLEAN :
         (/\ lastCall'.op = "restore"
          /\ Truthy(localStorage, AUTH_TOKEN_KEY)
          /\ HasItem(localStorage, USER_KEY)
          /\ localStorage[USER_KEY] = Stringify(LoginUser(email, ok)))
            => /\ user' = LoginUser(email, ok)
               /\ localStorage' = localStorage
               /\ lsWrites' = <<>>
               /\ calls' = [c \in Calls |-> IdleCall]
               /\ authIsLoading' = FALSE]_vars

\* after a reload, restoration brought back the user of a login whose
\* /auth/me had answered with a full name
C19_Witness ==
    /\ lastCall.op = "restore"
    /\ user # NoUser
    /\ user.full_name = <<"C", " ", "D">>
    /\ HasItem(localStorage, AUTH_TOKEN_KEY)
    /\ lsWrites = <<>>

\* C27. Logout is final with respect to earlier logins: a response that
\* arrives right after logout() belongs to a call started before it, and its
\* continuation leaves the session unauthenticated, with no persisted token
\* and no user.
C27_LogoutFinal ==
    [][(lastCall.op = "logout" /\ lastCall'.op \in {"loginResponse", "meResponse"})
            => /\ user' = NoUser
               /\ ~HasItem(localStorage', AUTH_TOKEN_KEY)]_vars

\* C28. Once the overlapping login calls have all completed, the persisted
\* token and the user come from the same call: the token is the one some
\* call was given and the user is the user of that call's credentials, in
\* memory and as persisted.
C28_TokenAndUserOfOneCall ==
    (/\ \A c \in Calls : calls[c].pc = "resolved"
     /\ HasItem(localStorage, AUTH_TOKEN_KEY)
     /\ HasItem(localStorage, USER_KEY)
     /\ user # NoUser)
        => \E c \in Calls :
             /\ localStorage[AUTH_TOKEN_KEY] = TokenOf(c)
             /\ user.email = calls[c].email
             /\ Parse(localStorage[USER_KEY]) = [ok |-> TRUE, value |-> user]

---------------------------------------------------------------------------
(* Properties of the two providers together, under SpecApp and SpecKeys     *)

AuthOps ==
    {"restore", "login", "register", "registerResponse", "loginResponse", "meResponse",
     "logout"}

HomeOps == {"loadHomes", "refreshHomes", "switchHome"}

\* the step neither sets, changes nor removes key k
KeyUntouched(k) ==
    /\ HasItem(localStorage', k) <=> HasItem(localStorage, k)
    /\ HasItem(localStorage, k) => localStorage'[k] = localStorage[k]
    /\ \A i \in DOMAIN lsWrites' : lsWrites'[i].key # k

\* C25. Persisted keys have a single writer each: startup restoration, login,
\* register and logout never write or remove the selected-home key, and
\* loadHomes, selection repair, switchHome and refreshHomes never write or
\* remove the token key or the cached-user key.
C25_SingleWriterKeys ==
    [][/\ lastCall'.op \in AuthOps => KeyUntouched(CURRENT_HOME_KEY)
       /\ lastCall'.op \in HomeOps
            => KeyUntouched(AUTH_TOKEN_KEY) /\ KeyUntouched(USER_KEY)]_vars

\* logout ran while a selection was persisted, and the selection is there
C25_Witness ==
    /\ lastCall.op = "logout"
    /\ Len(lsWrites) = 2
    /\ HasItem(localStorage, CURRENT_HOME_KEY)
    /\ ~HasItem(localStorage, AUTH_TOKEN_KEY)
    /\ currentHomeId # Null


\* C20. After a logout followed by a login as a different user, the Home
\* Registry does not carry over the previous user's data: when that login
\* completes, the home set is empty or is one loaded for the new user.
C20_HomesNotCarriedOver ==
    [][(/\ lastCall'.op = "meResponse"
        /\ user = NoUser
        /\ homesLoadedFor # <<>>
        /\ homesLoadedFor # user'.email)
            => \/ homes' = <<>>
               \/ homesLoadedFor' = user'.email]_vars


---------------------------------------------------------------------------
(* Properties of the light switches, under SpecLight *)

\* C23: handleToggle flips the displayed light state at once, before the
\* request is answered, and sets the loading flag; when the request fails the
\* displayed state is the one from before the toggle and onStateChange is not
\* called; when it succeeds the displayed state stays flipped and
\* onStateChange is called exactly once, with the new state; in both cases
\* the loading flag is false afterwards.
C23_OptimisticToggle ==
    [][\A room \in Rooms :
        /\ (lastCall'.op = "handleToggle" /\ lastCall'.arg = room) =>
               /\ lights'[room].lightState = Flipped(lights[room].lightState)
               /\ lights'[room].isLoading
               /\ lights'[room].pending # <<>>
               /\ notified' = <<>>
        /\ (lastCall'.op = "toggleRejected" /\ lastCall'.arg = room) =>
               /\ lights'[room].lightState = Head(lights[room].pending).lightState
               /\ lights'[room].lightState = Flipped(lights[room].lightState)
               /\ notified' = <<>>
               /\ ~lights'[room].isLoading
        /\ (lastCall'.op = "toggleResolved" /\ lastCall'.arg = room) =>
               /\ lights'[room].lightState = lights[room].lightState
               /\ lights'[room].lightState = Flipped(Head(lights[room].pending).lightState)
               /\ notified' = <<[room |-> room, state |-> lights'[room].lightState]>>
               /\ ~lights'[room].isLoading]_vars

\* a toggle of room 1 from off has failed: the switch shows off again
C23_Witness ==
    /\ lastCall.op = "toggleRejected"
    /\ lastCall.arg = 1
    /\ lights[1] = LightSwitchConstructed("off")
    /\ notified = <<>>

---------------------------------------------------------------------------
(* Properties of the role gating, under SpecNav *)

HasAutomation(items) == \E i \in 1..Len(items) : items[i].text = "Automation"

Texts(items) == [i \in 1..Len(items) |-> items[i].text]

\* C26: what the sidebar gets from getFilteredNavItems depends on the role
\* only: for guest it is NAV_ITEMS without the Automation item, for owner,
\* admin and member it is all of NAV_ITEMS, and for every role the items
\* without requiresRole are all there, in NAV_ITEMS order.
C26_NavItemsByRole ==
    (lastCall.op = "renderSidebar" /\ HomeExists(homes, currentHomeId)) =>
        /\ roleOf[currentHomeId] = "guest" =>
               /\ Texts(navItems) = <<"Dashboard", "Homes", "Rooms", "Devices", "Alerts">>
               /\ \A i \in 1..Len(navItems) :
                      \E j \in 1..Len(NAV_ITEMS) : navItems[i] = NAV_ITEMS[j]
        /\ roleOf[currentHomeId] \in {"owner", "admin", "member"} =>
               navItems = NAV_ITEMS
        /\ SelectSeq(navItems, LAMBDA item : ~item.restricted)
               = SelectSeq(NAV_ITEMS, LAMBDA item : ~item.restricted)
        /\ \A role \in Roles :
               role = roleOf[currentHomeId] => navItems = getFilteredNavItems(role)

\* the sidebar rendered for a home in which the user is a guest
C26_Witness ==
    /\ lastCall.op = "renderSidebar"
    /\ HomeExists(homes, currentHomeId)
    /\ roleOf[currentHomeId] = "guest"
    /\ Len(navItems) = 5
    /\ ~HasAutomation(navItems)

\* C30: for every role, and for no role when no home is selected, the
\* sidebar has the Automation item exactly when canViewAutomation allows the
\* role, so that it never links to a page AutomationPage would not show.
C30_NavAgreesWithPermission ==
    lastCall.op = "renderSidebar" =>
        (HasAutomation(navItems)
            <=> canViewAutomation(CurrentRole(homes, currentHomeId, roleOf)))

====
